---- MODULE Spec2Model ----
(***************************************************************************)
(* Key-value Merkle tree of hippiepug (hippiepug/tree.py): TreeBuilder     *)
(* (__setitem__, _make_subtree, commit) and Tree (get_node_by_hash,        *)
(* get_inclusion_proof, __getitem__, __contains__).                        *)
(*                                                                         *)
(* Strings (lookup keys, pivot prefixes) are sequences of character codes, *)
(* compared as Python compares str.  Byte strings (payloads, serialized    *)
(* nodes, hashes) are sequences of naturals.                               *)
(***************************************************************************)
EXTENDS Naturals, Sequences, FiniteSets, TLC

VARIABLES
    items,      \* TreeBuilder.items: the dict, as <<key, value>> pairs in insertion order
    store,      \* the object store's backend: hash -> stored bytes
    pc,         \* position of commit(): idle, add_nodes, add_items, return, done, raised
    nodes,      \* commit's local `nodes` (result of _make_subtree)
    idx,        \* position of the running for-loop of commit
    exc,        \* the exception commit() raised ("None" when none)
    add_failed, \* an object_store.add call of this commit has raised
    root,       \* Tree.root of the Tree commit returned (NoHash before)
    cache,      \* Tree._cache: hash -> decoded node
    ret,        \* outcome of the last call on the Tree
    faults      \* number of blocks lost or tampered with in the store

vars == <<items, store, pc, nodes, idx, exc, add_failed, root, cache, ret, faults>>

(***************************************************************************)
(* Bounds and input sets                                                   *)
(***************************************************************************)
MaxItems == 3
MaxFaults == 1

\* "a", "aa", "ab", "b", "ba"
KeyPool == {<<1>>, <<1, 1>>, <<1, 2>>, <<2>>, <<2, 1>>}
\* two byte payloads
Payloads == {<<7>>, <<8>>}

NoHash == <<>>                      \* Python None where a hash is expected
NoneNode == [type |-> "None"]       \* Python None where a node is expected

(***************************************************************************)
(* Python str: comparison, slicing, os.path.commonprefix                   *)
(***************************************************************************)
MinNat(a, b) == IF a <= b THEN a ELSE b
MaxNat(a, b) == IF a >= b THEN a ELSE b

\* s[:n]
Take(s, n) == SubSeq(s, 1, MinNat(n, Len(s)))

\* length of the longest common prefix of two strings
RECURSIVE LcpLen(_, _)
LcpLen(a, b) ==
    IF a = <<>> \/ b = <<>> \/ Head(a) # Head(b) THEN 0
    ELSE 1 + LcpLen(Tail(a), Tail(b))

\* a < b on Python str
StrLess(a, b) ==
    LET n == LcpLen(a, b)
    IN  IF n = Len(a) THEN n < Len(b)
        ELSE IF n = Len(b) THEN FALSE
        ELSE a[n + 1] < b[n + 1]

\* os.path.commonprefix(m): the common prefix of min(m) and max(m)
commonprefix(m) ==
    LET s1 == CHOOSE s \in m : \A t \in m : ~StrLess(t, s)
        s2 == CHOOSE s \in m : \A t \in m : ~StrLess(s, t)
    IN  Take(s1, LcpLen(s1, s2))

(***************************************************************************)
(* struct.TreeLeaf, struct.TreeNode; pack.encode / pack.decode;            *)
(* the object store (hash_object, add, get)                                *)
(***************************************************************************)
TreeLeaf(k, h) == [type |-> "TreeLeaf", lookup_key |-> k, payload_hash |-> h]
TreeNode(p, l, r) ==
    [type |-> "TreeNode", pivot_prefix |-> p, left_hash |-> l, right_hash |-> r]

\* a collision-free digest: the length-prefixed content
hash_object(b) == <<Len(b)>> \o b

\* tag, length-prefixed string, then the hashes (the first one length-prefixed)
encode(node) ==
    IF node.type = "TreeLeaf"
    THEN <<1, Len(node.lookup_key)>> \o node.lookup_key \o node.payload_hash
    ELSE <<2, Len(node.pivot_prefix)>> \o node.pivot_prefix
            \o <<Len(node.left_hash)>> \o node.left_hash \o node.right_hash

decode(b) ==
    IF Len(b) >= 2 /\ b[1] = 1 /\ Len(b) >= 2 + b[2]
    THEN TreeLeaf(SubSeq(b, 3, 2 + b[2]), SubSeq(b, 3 + b[2], Len(b)))
    ELSE IF Len(b) >= 3 /\ b[1] = 2 /\ Len(b) >= 3 + b[2]
                /\ Len(b) >= 3 + b[2] + b[3 + b[2]]
    THEN LET n == b[2]
             l == b[3 + n]
         IN  TreeNode(SubSeq(b, 3, 2 + n),
                      SubSeq(b, 4 + n, 3 + n + l),
                      SubSeq(b, 4 + n + l, Len(b)))
    ELSE [type |-> "Other"]

\* object_store.add(bytes): content-addressed, idempotent
store_add(st, b) ==
    IF hash_object(b) \in DOMAIN st THEN st ELSE st @@ (hash_object(b) :> b)

\* object_store.get(hash, check_integrity)
store_get(st, h, check_integrity) ==
    IF h \notin DOMAIN st
    THEN [exc |-> "None", found |-> FALSE, bytes |-> <<>>]
    ELSE IF check_integrity /\ hash_object(st[h]) # h
    THEN [exc |-> "IntegrityValidationError", found |-> FALSE, bytes |-> <<>>]
    ELSE [exc |-> "None", found |-> TRUE, bytes |-> st[h]]

(***************************************************************************)
(* TreeBuilder                                                             *)
(***************************************************************************)
KeysOf(its) == {its[i][1] : i \in 1..Len(its)}
ValueOf(its, k) == its[CHOOSE i \in 1..Len(its) : its[i][1] = k][2]

\* self.items[lookup_key] = value  (a dict keeps the position of an existing key)
dict_set(its, k, v) ==
    IF k \in KeysOf(its)
    THEN [i \in 1..Len(its) |-> IF its[i][1] = k THEN <<k, v>> ELSE its[i]]
    ELSE Append(its, <<k, v>>)

\* insertion of one pair into a list sorted by key
RECURSIVE InsertSorted(_, _)
InsertSorted(s, e) ==
    IF s = <<>> THEN <<e>>
    ELSE IF StrLess(e[1], Head(s)[1]) THEN <<e>> \o s
    ELSE <<Head(s)>> \o InsertSorted(Tail(s), e)

RECURSIVE SortFrom(_, _)
SortFrom(its, acc) ==
    IF its = <<>> THEN acc ELSE SortFrom(Tail(its), InsertSorted(acc, Head(its)))

\* the items left in dict order, as commit would see them without the sort
sorted_unsorted(its) == its

\* sorted(self.items.items(), key=lambda t: t[0])
sorted(its) == SortFrom(its, <<>>)

get_node_key(node) ==
    IF node.type = "TreeLeaf" THEN node.lookup_key ELSE node.pivot_prefix

\* _make_subtree on a list of at least one item
RECURSIVE subtree_nodes(_)
subtree_nodes(its) ==
    IF Len(its) = 1
    THEN <<TreeLeaf(its[1][1], hash_object(its[1][2]))>>
    ELSE LET middle == Len(its) \div 2
             pivot_key == its[middle + 1][1]
             left_subtree_nodes == subtree_nodes(SubSeq(its, 1, middle))
             right_subtree_nodes == subtree_nodes(SubSeq(its, middle + 1, Len(its)))
             left_child == left_subtree_nodes[1]
             right_child == right_subtree_nodes[1]
             pivot_prefixes ==
                 {pivot_key, get_node_key(left_child), get_node_key(right_child)}
             common_prefix == commonprefix(pivot_prefixes)
             pivot_prefix == Take(pivot_key, MaxNat(1, Len(common_prefix) + 1))
             pivot_node == TreeNode(pivot_prefix,
                                    hash_object(encode(left_child)),
                                    hash_object(encode(right_child)))
         IN  <<pivot_node>> \o left_subtree_nodes \o right_subtree_nodes

\* _make_subtree without the check of line 148: no items give a lone node
\* without children instead of an error
make_subtree_empty_root(its) ==
    IF Len(its) = 0
    THEN [exc |-> "None", nodes |-> <<TreeNode(<<>>, NoHash, NoHash)>>]
    ELSE [exc |-> "None", nodes |-> subtree_nodes(its)]

\* TreeBuilder._make_subtree
make_subtree(its) ==
    IF Len(its) = 0
    THEN [exc |-> "ValueError", nodes |-> <<>>]
    ELSE [exc |-> "None", nodes |-> subtree_nodes(its)]

(***************************************************************************)
(* Tree                                                                    *)
(***************************************************************************)
\* what get_node_by_hash does with the answer r of object_store.get
node_from_store(c, h, r) ==
    IF r.exc # "None"
    THEN [exc |-> r.exc, node |-> NoneNode, cache |-> c, absent |-> FALSE]
    ELSE IF r.found
    THEN [exc |-> "None", node |-> decode(r.bytes),
          cache |-> c @@ (h :> decode(r.bytes)), absent |-> FALSE]
    ELSE [exc |-> "None", node |-> NoneNode, cache |-> c, absent |-> TRUE]

\* get_node_by_hash reading the store with check_integrity=False
get_node_by_hash_unchecked(c, st, h) ==
    IF h \in DOMAIN c
    THEN [exc |-> "None", node |-> c[h], cache |-> c, absent |-> FALSE]
    ELSE node_from_store(c, h, store_get(st, h, FALSE))

\* Tree.get_node_by_hash on cache c and store st: the exception raised, the
\* node returned, the cache afterwards, and whether the store had no data
get_node_by_hash(c, st, h) ==
    IF h \in DOMAIN c
    THEN [exc |-> "None", node |-> c[h], cache |-> c, absent |-> FALSE]
    ELSE node_from_store(c, h, store_get(st, h, TRUE))

\* the comparison as <=: a key equal to the pivot goes left
descend_left_or_equal(lookup_key, node) ==
    lookup_key = node.pivot_prefix \/ StrLess(lookup_key, node.pivot_prefix)

\* lookup_key < current_node.pivot_prefix
descend_left(lookup_key, node) == StrLess(lookup_key, node.pivot_prefix)

Raised(e, c, absent) ==
    [exc |-> e, path |-> <<>>, closure |-> <<>>, cache |-> c, absent |-> absent]

\* left_child = right_child = None
NoChild(c) == [exc |-> "None", node |-> NoneNode, cache |-> c, absent |-> FALSE]

\* a child of current_node, when its hash is set
child(c, st, h) == IF h # NoHash THEN get_node_by_hash(c, st, h) ELSE NoChild(c)

\* closure_nodes.append(node) if node is not None
closure_with(closure_nodes, node) ==
    IF node # NoneNode THEN Append(closure_nodes, node) ELSE closure_nodes

AbsentOf(g, h) == IF g.absent THEN {h} ELSE {}

\* the while loop of get_inclusion_proof
RECURSIVE walk(_, _, _, _, _, _, _)

\* one turn of the loop at a TreeNode, its children resolved as gl and gr
turn(st, current_node, path_nodes, closure_nodes, absent, lookup_key, gl, gr) ==
    IF gl.exc # "None" THEN Raised(gl.exc, gl.cache, absent)
    ELSE IF gr.exc # "None" THEN Raised(gr.exc, gr.cache, absent)
    ELSE IF descend_left(lookup_key, current_node)
    THEN walk(gr.cache, st, gl.node, Append(path_nodes, current_node),
              closure_with(closure_nodes, gr.node),
              absent \cup AbsentOf(gl, current_node.left_hash)
                     \cup AbsentOf(gr, current_node.right_hash),
              lookup_key)
    ELSE walk(gr.cache, st, gr.node, Append(path_nodes, current_node),
              closure_with(closure_nodes, gl.node),
              absent \cup AbsentOf(gl, current_node.left_hash)
                     \cup AbsentOf(gr, current_node.right_hash),
              lookup_key)

\* the right child is resolved after the left one, on the cache the left one left
turn_right(st, current_node, path_nodes, closure_nodes, absent, lookup_key, gl) ==
    turn(st, current_node, path_nodes, closure_nodes, absent, lookup_key, gl,
         IF gl.exc # "None" THEN gl ELSE child(gl.cache, st, current_node.right_hash))

walk(c, st, current_node, path_nodes, closure_nodes, absent, lookup_key) ==
    IF current_node.type = "TreeLeaf"
    THEN [exc |-> "None", path |-> Append(path_nodes, current_node),
          closure |-> closure_nodes, cache |-> c, absent |-> absent]
    ELSE IF current_node.type # "TreeNode"
    THEN Raised("AttributeError", c, absent)     \* no pivot_prefix on None
    ELSE turn_right(st, current_node, path_nodes, closure_nodes, absent, lookup_key,
                    child(c, st, current_node.left_hash))

\* get_inclusion_proof from the root node resolved as g
proof_from(st, rt, lookup_key, g) ==
    IF g.exc # "None" THEN Raised(g.exc, g.cache, {})
    ELSE walk(g.cache, st, g.node, <<>>, <<>>, AbsentOf(g, rt), lookup_key)

\* Tree.get_inclusion_proof
get_inclusion_proof(c, st, rt, lookup_key) ==
    proof_from(st, rt, lookup_key, get_node_by_hash(c, st, rt))

\* serialized_payload = self.object_store.get(leaf_node.payload_hash)
payload_of(p, g) == [p EXCEPT !.exc = g.exc] @@ [value |-> g.bytes]

\* __getitem__ without the comparison of line 97: the terminal leaf's payload
\* is returned whatever its key
getitem_any_leaf(st, lookup_key, p) ==
    IF p.exc # "None" THEN p @@ [value |-> <<>>]
    ELSE payload_of(p, store_get(st, p.path[Len(p.path)].payload_hash, TRUE))

\* Tree.__getitem__ on the proof p
getitem_from(st, lookup_key, p) ==
    IF p.exc # "None" THEN p @@ [value |-> <<>>]
    ELSE IF p.path # <<>> /\ p.path[Len(p.path)].lookup_key = lookup_key
    THEN payload_of(p, store_get(st, p.path[Len(p.path)].payload_hash, TRUE))
    ELSE [p EXCEPT !.exc = "KeyError"] @@ [value |-> <<>>]

\* Tree.__getitem__
getitem(c, st, rt, lookup_key) ==
    getitem_from(st, lookup_key, get_inclusion_proof(c, st, rt, lookup_key))

\* Tree.__contains__ on the outcome g of __getitem__
contains_from(g) ==
    IF g.exc = "None" THEN g @@ [member |-> TRUE]
    ELSE IF g.exc = "KeyError" THEN [g EXCEPT !.exc = "None"] @@ [member |-> FALSE]
    ELSE g @@ [member |-> FALSE]

\* Tree.__contains__
contains(c, st, rt, lookup_key) == contains_from(getitem(c, st, rt, lookup_key))

NoRet ==
    [op |-> "none", key |-> <<>>, exc |-> "None", path |-> <<>>, closure |-> <<>>,
     value |-> <<>>, member |-> FALSE, node |-> NoneNode, hit |-> FALSE,
     stored |-> "none", absent |-> {}, cache |-> <<>>]

(***************************************************************************)
(* Actions of the builder                                                  *)
(***************************************************************************)
TreeVars == <<root, cache, ret, faults>>
CommitVars == <<pc, nodes, idx, exc, add_failed>>

Init ==
    /\ items = <<>>
    /\ store = <<>>
    /\ pc = "idle"
    /\ nodes = <<>>
    /\ idx = 0
    /\ exc = "None"
    /\ add_failed = FALSE
    /\ root = NoHash
    /\ cache = <<>>
    /\ ret = NoRet
    /\ faults = 0

\* builder[lookup_key] = value
SetItem(lookup_key, value) ==
    /\ pc = "idle"
    /\ lookup_key \in KeysOf(items) \/ Len(items) < MaxItems
    /\ items' = dict_set(items, lookup_key, value)
    /\ UNCHANGED <<store, CommitVars, TreeVars>>

\* commit(): sorted and _make_subtree
CommitBegin ==
    /\ pc = "idle"
    /\ LET m == make_subtree(sorted(items))
       IN  /\ nodes' = m.nodes
           /\ exc' = m.exc
           /\ pc' = IF m.exc # "None" THEN "raised" ELSE "add_nodes"
           /\ idx' = IF m.exc # "None" THEN 0 ELSE 1
    /\ UNCHANGED <<items, store, add_failed, TreeVars>>

\* where commit goes when the loop over nodes ends: the loop over the values
\* of the items, which makes no turn when there are none
after_nodes(its) == IF its = <<>> THEN "return" ELSE "add_items"

\* the loop over nodes with a failed add swallowed: the loop goes on
CommitAddNode_swallow ==
    /\ pc = "add_nodes"
    /\ \E ok \in BOOLEAN :
        /\ store' = IF ok THEN store_add(store, encode(nodes[idx])) ELSE store
        /\ add_failed' = (add_failed \/ ~ok)
    /\ pc' = IF idx < Len(nodes) THEN "add_nodes" ELSE after_nodes(items)
    /\ idx' = IF idx < Len(nodes) THEN idx + 1 ELSE 1
    /\ UNCHANGED <<items, nodes, exc, TreeVars>>

\* commit(): one turn of `for node in nodes: object_store.add(encode(node))`
CommitAddNode ==
    /\ pc = "add_nodes"
    /\ \/ /\ store' = store_add(store, encode(nodes[idx]))
          /\ pc' = IF idx < Len(nodes) THEN "add_nodes" ELSE after_nodes(items)
          /\ idx' = IF idx < Len(nodes) THEN idx + 1 ELSE 1
          /\ UNCHANGED <<exc, add_failed>>
       \/ /\ exc' = "StoreError"               \* add raises
          /\ add_failed' = TRUE
          /\ pc' = "raised"
          /\ UNCHANGED <<store, idx>>
    /\ UNCHANGED <<items, nodes, TreeVars>>

\* commit(): one turn of `for serialized_obj in self.items.values(): add`
CommitAddItem ==
    /\ pc = "add_items"
    /\ \/ /\ store' = store_add(store, items[idx][2])
          /\ pc' = IF idx < Len(items) THEN "add_items" ELSE "return"
          /\ idx' = IF idx < Len(items) THEN idx + 1 ELSE 0
          /\ UNCHANGED <<exc, add_failed>>
       \/ /\ exc' = "StoreError"
          /\ add_failed' = TRUE
          /\ pc' = "raised"
          /\ UNCHANGED <<store, idx>>
    /\ UNCHANGED <<items, nodes, TreeVars>>

\* commit(): root = hash_object(encode(nodes[0])); return Tree(object_store, root)
CommitReturn ==
    /\ pc = "return"
    /\ root' = hash_object(encode(nodes[1]))
    /\ cache' = <<>>
    /\ pc' = "done"
    /\ UNCHANGED <<items, store, nodes, idx, exc, add_failed, ret, faults>>

(***************************************************************************)
(* Actions on the Tree                                                     *)
(***************************************************************************)
StoredAs(h) ==
    IF h \notin DOMAIN store THEN "absent"
    ELSE IF hash_object(store[h]) # h THEN "corrupt" ELSE "intact"

\* the call returns (or raises) g
Returns(r, g) ==
    /\ cache' = g.cache
    /\ ret' = (r @@ g) @@ NoRet

\* tree.get_node_by_hash(h)
GetNodeByHash(h) ==
    /\ pc = "done"
    /\ Returns([op |-> "get_node_by_hash", key |-> h, hit |-> (h \in DOMAIN cache),
                stored |-> StoredAs(h), cache |-> <<>>, absent |-> {}],
               get_node_by_hash(cache, store, h))
    /\ UNCHANGED <<items, store, CommitVars, root, faults>>

\* tree.get_inclusion_proof(lookup_key)
GetInclusionProof(lookup_key) ==
    /\ pc = "done"
    /\ Returns([op |-> "get_inclusion_proof", key |-> lookup_key, cache |-> <<>>],
               get_inclusion_proof(cache, store, root, lookup_key))
    /\ UNCHANGED <<items, store, CommitVars, root, faults>>

\* tree[lookup_key]
GetItem(lookup_key) ==
    /\ pc = "done"
    /\ Returns([op |-> "getitem", key |-> lookup_key, cache |-> <<>>,
                path |-> <<>>, closure |-> <<>>],
               getitem(cache, store, root, lookup_key))
    /\ UNCHANGED <<items, store, CommitVars, root, faults>>

\* lookup_key in tree
Contains(lookup_key) ==
    /\ pc = "done"
    /\ Returns([op |-> "contains", key |-> lookup_key, cache |-> <<>>,
                path |-> <<>>, closure |-> <<>>, value |-> <<>>],
               contains(cache, store, root, lookup_key))
    /\ UNCHANGED <<items, store, CommitVars, root, faults>>

Next ==
    \/ \E k \in KeyPool, v \in Payloads : SetItem(k, v)
    \/ CommitBegin
    \/ CommitAddNode
    \/ CommitAddItem
    \/ CommitReturn
    \/ \E k \in KeyPool : GetInclusionProof(k)
    \/ \E k \in KeyPool : GetItem(k)
    \/ \E k \in KeyPool : Contains(k)

Spec == Init /\ [][Next]_vars

(***************************************************************************)
(* A Tree over a store whose blocks get lost or tampered with              *)
(***************************************************************************)
NodeHashes == {hash_object(encode(nodes[i])) : i \in 1..Len(nodes)}

\* the serialized leaf an attacker puts in place of a stored block
ForgedBlock == encode(TreeLeaf(<<2, 2>>, hash_object(<<9>>)))

RECURSIVE ItemsOf(_)
ItemsOf(ks) ==
    IF ks = {} THEN <<>>
    ELSE LET k == CHOOSE x \in ks : TRUE
         IN  <<<<k, <<7>>>>>> \o ItemsOf(ks \ {k})

RECURSIVE AddAll(_, _)
AddAll(st, blocks) ==
    IF blocks = <<>> THEN st
    ELSE AddAll(store_add(st, Head(blocks)), Tail(blocks))

\* the store and the Tree a complete commit() of these items leaves
InitFault ==
    \E ks \in SUBSET KeyPool :
        /\ ks # {}
        /\ Cardinality(ks) < MaxItems
        /\ items = ItemsOf(ks)
        /\ nodes = make_subtree(sorted(items)).nodes
        /\ store = AddAll(AddAll(<<>>, [i \in 1..Len(nodes) |-> encode(nodes[i])]),
                          [i \in 1..Len(items) |-> items[i][2]])
        /\ root = hash_object(encode(nodes[1]))
        /\ pc = "done"
        /\ idx = 0
        /\ exc = "None"
        /\ add_failed = FALSE
        /\ cache = <<>>
        /\ ret = NoRet
        /\ faults = 0

\* the store loses the block of a node
Lose(h) ==
    /\ pc = "done"
    /\ faults < MaxFaults
    /\ h \in DOMAIN store
    /\ store' = [x \in DOMAIN store \ {h} |-> store[x]]
    /\ faults' = faults + 1
    /\ UNCHANGED <<items, CommitVars, root, cache, ret>>

\* the stored bytes of a node are replaced
Tamper(h) ==
    /\ pc = "done"
    /\ faults < MaxFaults
    /\ h \in DOMAIN store
    /\ store[h] # ForgedBlock
    /\ store' = [store EXCEPT ![h] = ForgedBlock]
    /\ faults' = faults + 1
    /\ UNCHANGED <<items, CommitVars, root, cache, ret>>

\* the hashes a caller of the Tree knows: the root and those in nodes it has read
KnownHashes ==
    {root} \cup {cache[h].left_hash : h \in {x \in DOMAIN cache : cache[x].type = "TreeNode"}}
           \cup {cache[h].right_hash : h \in {x \in DOMAIN cache : cache[x].type = "TreeNode"}}

NextFault ==
    \/ \E h \in NodeHashes : Lose(h)
    \/ \E h \in NodeHashes : Tamper(h)
    \/ \E h \in KnownHashes : GetNodeByHash(h)
    \/ \E k \in KeyPool : GetInclusionProof(k)
    \/ \E k \in KeyPool : GetItem(k)
    \/ \E k \in KeyPool : Contains(k)

SpecFault == InitFault /\ [][NextFault]_vars

(***************************************************************************)
(* Properties                                                              *)
(***************************************************************************)
Last(s) == s[Len(s)]
Lookups == {"get_inclusion_proof", "getitem", "contains"}

\* the keys of the leaves under the node stored as h
RECURSIVE LeafKeys(_, _)
LeafKeys(st, h) ==
    IF h \notin DOMAIN st THEN {}
    ELSE LET node == decode(st[h])
         IN  IF node.type = "TreeLeaf" THEN {node.lookup_key}
             ELSE IF node.type = "TreeNode"
             THEN LeafKeys(st, node.left_hash) \cup LeafKeys(st, node.right_hash)
             ELSE {}

\* the node stored as h, and all under it down to the payloads, are in the store
RECURSIVE Present(_, _)
Present(st, h) ==
    /\ h \in DOMAIN st
    /\ LET node == decode(st[h])
       IN  IF node.type = "TreeLeaf" THEN node.payload_hash \in DOMAIN st
           ELSE IF node.type = "TreeNode"
           THEN Present(st, node.left_hash) /\ Present(st, node.right_hash)
           ELSE FALSE

\* C1: every key set on the builder is found in the committed Tree, and
\* tree[k] is the payload assigned to k.
RoundTrip ==
    (pc = "done" /\ ret.key \in KeysOf(items)) =>
        /\ ret.op = "getitem" =>
              ret.exc = "None" /\ ret.value = ValueOf(items, ret.key)
        /\ ret.op = "contains" => ret.exc = "None" /\ ret.member

\* C2: at every Internal node of a committed tree the leaf keys on the left
\* are < pivot_prefix and the leaf keys on the right are >= pivot_prefix.
PrefixOrdering ==
    pc = "done" =>
        \A h \in NodeHashes :
            LET node == decode(store[h])
            IN  node.type = "TreeNode" =>
                    /\ \A k \in LeafKeys(store, node.left_hash) :
                            StrLess(k, node.pivot_prefix)
                    /\ \A k \in LeafKeys(store, node.right_hash) :
                            ~StrLess(k, node.pivot_prefix)

\* C3: for a key never set, tree[q] raises KeyError, q in tree is False, and
\* the path of get_inclusion_proof(q) ends in a Leaf with another key.
NonMembership ==
    (pc = "done" /\ ret.op \in Lookups /\ ret.key \notin KeysOf(items)) =>
        /\ ret.op = "getitem" => ret.exc = "KeyError"
        /\ ret.op = "contains" => ret.exc = "None" /\ ~ret.member
        /\ ret.op = "get_inclusion_proof" =>
              /\ ret.exc = "None"
              /\ ret.path # <<>>
              /\ Last(ret.path).type = "TreeLeaf"
              /\ Last(ret.path).lookup_key # ret.key

NonMembershipWitness ==
    /\ pc = "done"
    /\ Len(items) = MaxItems
    /\ ret.op = "getitem"
    /\ ret.key \notin KeysOf(items)
    /\ ret.exc = "KeyError"

\* C4: the root hash of the Tree commit has just returned is the one a builder
\* returns that holds the same mapping with its keys assigned in any other order.
Determinism ==
    (pc = "done" /\ ret = NoRet) =>
        \A f \in Permutations(1..Len(items)) :
            hash_object(encode(
                make_subtree(sorted([i \in 1..Len(items) |-> items[f[i]]])).nodes[1]))
              = root

DeterminismWitness ==
    /\ pc = "done"
    /\ ret = NoRet
    /\ Len(items) = MaxItems
    /\ sorted(items) # items

\* C5: commit() with no pending entries raises, returns no Tree and leaves
\* the store as it was.
EmptyCommit ==
    (items = <<>> /\ pc # "idle") =>
        /\ pc = "raised"
        /\ exc # "None"
        /\ root = NoHash
        /\ store = <<>>

EmptyCommitWitness == items = <<>> /\ pc = "raised" /\ exc = "ValueError"

\* C6: when commit returned a Tree, its root, every node under it and every
\* leaf's payload are in the store; when an add failed, no Tree is returned.
NoTreeOverMissingData ==
    /\ root # NoHash => Present(store, root)
    /\ add_failed => (root = NoHash /\ pc = "raised")

NoTreeOverMissingDataWitness ==
    /\ add_failed
    /\ pc = "raised"
    /\ store # <<>>
    /\ Len(nodes) >= 3

\* C7: a lookup that met a hash without data in the store (the root, a child
\* descended into or its sibling) raises an error instead of answering.
MissingBlockPropagates ==
    (ret.op \in Lookups /\ ret.absent # {}) => ret.exc \notin {"None", "KeyError"}

\* C8: the cache holds no node that does not hash to its key; a
\* get_node_by_hash for an uncached hash whose stored bytes are corrupt raises
\* the integrity error and caches nothing; one for a cached hash returns the
\* cached node whatever the store holds.
TrustedCache ==
    /\ \A h \in DOMAIN cache : hash_object(encode(cache[h])) = h
    /\ ret.op = "get_node_by_hash" =>
          /\ (~ret.hit /\ ret.stored = "corrupt") =>
                /\ ret.exc = "IntegrityValidationError"
                /\ ret.node = NoneNode
                /\ ret.key \notin DOMAIN cache
          /\ ret.hit =>
                /\ ret.exc = "None"
                /\ ret.node = cache[ret.key]

TrustedCacheWitness ==
    /\ ret.op = "get_node_by_hash"
    /\ ~ret.hit
    /\ ret.stored = "corrupt"
    /\ cache # <<>>

\* C9: in every state of commit, every node block in the store references
\* only child hashes that are in the store.
ChildrenStoredFirst ==
    \A h \in DOMAIN store :
        LET node == decode(store[h])
        IN  node.type = "TreeNode" =>
                node.left_hash \in DOMAIN store /\ node.right_hash \in DOMAIN store

\* C10: get_inclusion_proof returns the path from the root to a Leaf chosen
\* by key < pivot_prefix at each Internal node, and the other child of every
\* Internal node of the path as the closure.
ProofShape ==
    (pc = "done" /\ ret.op = "get_inclusion_proof") =>
        /\ ret.exc = "None"
        /\ Len(ret.path) >= 1
        /\ Len(ret.closure) = Len(ret.path) - 1
        /\ ret.path[1] = decode(store[root])
        /\ Last(ret.path).type = "TreeLeaf"
        /\ \A i \in 1..(Len(ret.path) - 1) :
              /\ ret.path[i].type = "TreeNode"
              /\ IF StrLess(ret.key, ret.path[i].pivot_prefix)
                 THEN /\ hash_object(encode(ret.path[i + 1])) = ret.path[i].left_hash
                      /\ hash_object(encode(ret.closure[i])) = ret.path[i].right_hash
                 ELSE /\ hash_object(encode(ret.path[i + 1])) = ret.path[i].right_hash
                      /\ hash_object(encode(ret.closure[i])) = ret.path[i].left_hash
        /\ Len(items) = 1 => (Len(ret.path) = 1 /\ ret.closure = <<>>)

ProofShapeWitness ==
    /\ pc = "done"
    /\ ret.op = "get_inclusion_proof"
    /\ Len(ret.path) = 3
    /\ ret.key = ret.path[1].pivot_prefix

====
